---- MODULE Spec2Model ----
(***************************************************************************)
(* Model of internal/agent/openai.go: the OpenAIAgent that assembles a     *)
(* streamed, tool-augmented conversation turn (SendMessage), folds tool    *)
(* results back into the conversation and streams the follow-up turn       *)
(* (SendFunctionResult), and cancels / finalizes an interaction.           *)
(*                                                                         *)
(* Granularity: a goroutine running SendMessage or SendFunctionResult      *)
(* takes one step per critical section of its prologue and one step per    *)
(* stream.Recv() (the only blocking call), the step including everything   *)
(* the code does with the received chunk.  Cancel and FinalizeInteraction  *)
(* are one critical section each.                                          *)
(*                                                                         *)
(* Text is a sequence of tokens; "" is the empty sequence.                 *)
(***************************************************************************)
EXTENDS Integers, Sequences, FiniteSets, TLC

\* ---------------------------------------------------------------- bounds
MaxOps == 3
MaxIds == 2
MaxFrags == 3
MaxFragsOverlap == 1

Procs == {1, 2}
LockProcs == {1, 2, 3}
Handlers == {1}
IdSeq == <<"c1", "c2", "c3", "c4">>
Ids == {IdSeq[i] : i \in 1..MaxIds}
E == <<>>
TextFrags == {<<"a">>, <<"b">>}
ArgFrags == {<<"x">>}
Names == {"shell"}
Outputs == {"o"}
ChunkLens == {0, 1, 2}
FinishReasons == {"", "stop", "tool_calls"}

VARIABLES
  history,           \* a.history: the Message Log
  pendingToolCalls,  \* a.pendingToolCalls: set of call ids
  cancelFunc,        \* a.cancelFunc: id of the context it cancels, 0 = nil
  currentHandler,    \* a.currentHandler: 0 = nil
  th,                \* per goroutine: operation, position and locals
  opCount,           \* operations started so far
  issued,            \* call ids the upstream has used in some stream
  toAnswer,          \* ids delivered to the sink the caller has yet to answer
  overlap,           \* whether the caller runs calls concurrently in this behaviour
  used,              \* number of text and tool-call fragments the upstream has sent
  sent,              \* the request most recently sent upstream
  mu,                \* a.mu: the goroutine that holds it, 0 = unlocked
  pendingMu,         \* a.pendingMu: the goroutine that holds it, 0 = unlocked
  lk                 \* per goroutine: operation and position, at the grain of lock operations

lockVars == <<mu, pendingMu, lk>>

vars == <<history, pendingToolCalls, cancelFunc, currentHandler,
          th, opCount, issued, toAnswer, overlap, used, sent, mu, pendingMu, lk>>

\* ---------------------------------------------------------------- data
RoleUser == "user"
RoleAssistant == "assistant"
RoleTool == "tool"
ToolTypeFunction == "function"

NoCall == [set |-> FALSE, id |-> "", name |-> "", args |-> E]

Message(role, content, toolCalls, toolCallId, name) ==
  [role |-> role, content |-> content, toolCalls |-> toolCalls,
   toolCallId |-> toolCallId, name |-> name]

UserMessage == Message(RoleUser, <<"u">>, <<>>, "", "")

\* json.Marshal(map[string]interface{}{key: val}) as text
mustMarshal(key, val) == <<"{", key, ":", val, "}">>

CancelledText == "execution cancelled by user"

Idle ==
  [op |-> "none", pc |-> "idle", ctx |-> 0, cancelled |-> FALSE, handler |-> 0,
   messages |-> <<>>, aborted |-> <<>>,
   callID |-> "", fname |-> "", output |-> "", success |-> FALSE,
   acc |-> <<>>, currentContent |-> E,
   streamEndedWithToolCall |-> FALSE, processingToolCall |-> FALSE,
   cfc |-> NoCall,
   ret |-> "none", flag |-> FALSE,
   \* history variables of the turn, read by the properties only
   order |-> <<>>, frags |-> <<>>, events |-> <<>>, seen |-> {},
   sawTool |-> FALSE, marker |-> "", drained |-> {}, commits |-> <<>>,
   lateText |-> FALSE, eof |-> FALSE, found |-> {}, calls |-> <<>>]

LkIdle == [op |-> "none", pc |-> "idle", n |-> 0]

Range(s) == {s[i] : i \in 1..Len(s)}

Perms(S) ==
  {f \in [1..Cardinality(S) -> S] : \A i, j \in 1..Cardinality(S) : f[i] = f[j] => i = j}

\* ---------------------------------------------------------------- history
\* ConversationHistory.AddMessage / AddMessages: append to the log
AddMessages(h, msgs) == h \o msgs

AddMessage(h, msg) == Append(h, msg)

\* ConversationHistory.GetMessagesForContext: the window of the log that is
\* sent; the logs of this model fit in the window
GetMessagesForContext(h) == h

\* ---------------------------------------------------------------- events
MessageEvent(role, content) ==
  [type |-> "message", role |-> role, content |-> content,
   id |-> "", name |-> "", args |-> E, regd |-> FALSE]

\* regd records whether the id was in pendingToolCalls when the sink was called
FunctionCallEvent(id, name, args, regd) ==
  [type |-> "function_call", role |-> "", content |-> E,
   id |-> id, name |-> name, args |-> args, regd |-> regd]

FollowupCompleteEvent ==
  [type |-> "followup_complete", role |-> "", content |-> E,
   id |-> "", name |-> "", args |-> E, regd |-> FALSE]

EventIds(evs) == {evs[i].id : i \in {j \in 1..Len(evs) : evs[j].type = "function_call"}}

\* ---------------------------------------------------------------- requests
\* the openai.ChatCompletionMessage built from one history message
ConvertMessage(msg) ==
  LET calls == msg.role = RoleAssistant /\ Len(msg.toolCalls) > 0 IN
  [role |-> msg.role,
   content |-> IF calls THEN E ELSE msg.content,
   toolCalls |-> IF calls THEN msg.toolCalls ELSE <<>>,
   toolCallId |-> IF msg.role = RoleTool THEN msg.toolCallId ELSE ""]

\* SendMessage: every history message is converted and sent
ConvertHistory(msgs) == [i \in 1..Len(msgs) |-> ConvertMessage(msgs[i])]

CallIds(msg) == {msg.toolCalls[j].id : j \in 1..Len(msg.toolCalls)}

\* variant: a tool result does not fulfil the expectation of its id
RECURSIVE FilterHistoryKeepExpecting(_, _, _)
FilterHistoryKeepExpecting(msgs, i, expected) ==
  IF i > Len(msgs) THEN <<>>
  ELSE
    LET msg == msgs[i]
        isCall == msg.role = RoleAssistant /\ Len(msg.toolCalls) > 0
        skip == msg.role = RoleAssistant /\ ~isCall /\ expected # {}
        exp2 == IF isCall THEN expected \cup CallIds(msg) ELSE expected
    IN (IF skip THEN <<>> ELSE <<ConvertMessage(msg)>>)
         \o FilterHistoryKeepExpecting(msgs, i + 1, exp2)

\* SendFunctionResult: the filtering loop, from message i on, with the set
\* toolCallIDsExpected
RECURSIVE FilterHistory(_, _, _)
FilterHistory(msgs, i, expected) ==
  IF i > Len(msgs) THEN <<>>
  ELSE
    LET msg == msgs[i]
        isCall == msg.role = RoleAssistant /\ Len(msg.toolCalls) > 0
        skip == msg.role = RoleAssistant /\ ~isCall /\ expected # {}
        exp2 == IF isCall THEN expected \cup CallIds(msg)
                ELSE IF msg.role = RoleTool THEN expected \ {msg.toolCallId}
                ELSE expected
    IN (IF skip THEN <<>> ELSE <<ConvertMessage(msg)>>)
         \o FilterHistory(msgs, i + 1, exp2)

\* ---------------------------------------------------------------- assembly
\* SendMessage: one pass of the loop over choice.Delta.ToolCalls into the
\* accumulatingToolCalls map
RECURSIVE Accumulate(_, _)
Accumulate(acc, tcs) ==
  IF tcs = <<>> THEN acc
  ELSE
    LET c == Head(tcs)
        a1 == IF c.id \in DOMAIN acc THEN acc
              ELSE (c.id :> [name |-> c.name, args |-> E]) @@ acc
        a2 == IF c.args # E
              THEN [a1 EXCEPT ![c.id].args = @ \o c.args]
              ELSE a1
    IN IF c.id = "" THEN Accumulate(acc, Tail(tcs))
       ELSE Accumulate(a2, Tail(tcs))

\* variant: the call is not tracked
RegisterNothing(pend, id) == pend

\* a.pendingToolCalls[id] = true
Register(pend, id) == pend \cup {id}

\* SendMessage, FinishReason "tool_calls": for each accumulated call, in the
\* order ord in which the map is iterated, track it as pending and hand the
\* function_call item to the handler
RECURSIVE EmitFunctionCalls(_, _, _)
EmitFunctionCalls(acc, ord, pend) ==
  IF ord = <<>> THEN [pending |-> pend, events |-> <<>>]
  ELSE
    LET id == Head(ord)
        p2 == Register(pend, id)
        rest == EmitFunctionCalls(acc, Tail(ord), p2)
    IN [pending |-> rest.pending,
        events |-> <<FunctionCallEvent(id, acc[id].name, acc[id].args, id \in p2)>>
                     \o rest.events]

ToolCall(id, name, args) ==
  [id |-> id, type |-> ToolTypeFunction, name |-> name, args |-> args]

\* SendMessage after the loop: the tool calls of the assistant message, the
\* map being iterated in the order ord
AssistantToolCalls(acc, ord) ==
  [i \in 1..Len(ord) |->
     ToolCall(ord[i], acc[ord[i]].name,
              IF acc[ord[i]].args = E THEN <<"{}">> ELSE acc[ord[i]].args)]

\* variant: nothing is added to the history after the loop
FinalAssistantMessagesNone(t, ord) == <<>>

\* the assistant message SendMessage commits after the loop, if any
FinalAssistantMessages(t, ord) ==
  IF t.streamEndedWithToolCall
  THEN IF Len(ord) > 0
       THEN <<Message(RoleAssistant, E, AssistantToolCalls(t.acc, ord), "", "")>>
       ELSE <<>>
  ELSE IF t.currentContent # E
       THEN <<Message(RoleAssistant, t.currentContent, <<>>, "", "")>>
       ELSE <<>>

\* ---------------------------------------------------------------- upstream
\* ids the upstream has not used yet, in the order it will use them
FreshIds == SelectSeq([i \in 1..MaxIds |-> IdSeq[i]], LAMBDA c : c \notin issued)

Fresh(k) == IF Len(FreshIds) >= k THEN {FreshIds[k]} ELSE {}

CallFrags(ids) == [id : ids, name : Names, args : ArgFrags \cup {E}]

\* the tool-call parts one chunk of the stream of goroutine p can carry: a
\* call id is unique to its stream
ChunkCalls(p) ==
  LET own == th[p].seen \cup {""} IN
  (IF 0 \in ChunkLens THEN {<<>>} ELSE {})
  \cup (IF 1 \in ChunkLens THEN {<<c>> : c \in CallFrags(own \cup Fresh(1))} ELSE {})
  \cup (IF 2 \in ChunkLens
        THEN UNION {{<<c, d>> : d \in CallFrags(own \cup {c.id} \cup
                                    (IF c.id \in Fresh(1) THEN Fresh(2) ELSE Fresh(1)))}
                    : c \in CallFrags(own \cup Fresh(1))}
        ELSE {})

FragCount(chunk) ==
  (IF chunk.content # E THEN 1 ELSE 0) + Len(chunk.toolCalls)

FragBudget == IF overlap THEN MaxFragsOverlap ELSE MaxFrags

\* the chunks the stream of goroutine p can deliver next: a finish reason
\* comes with the last chunk of a stream
Chunks(p) ==
  IF th[p].marker # "" THEN {}
  ELSE {chunk \in [content : TextFrags \cup {E}, toolCalls : ChunkCalls(p),
                   finish : FinishReasons] :
          used + FragCount(chunk) <= FragBudget}

UsedAfter(chunk) == used + FragCount(chunk)

ChunkIds(chunk) ==
  {chunk.toolCalls[i].id : i \in 1..Len(chunk.toolCalls)} \ {""}

\* call ids in order of first appearance
RECURSIVE FirstSeen(_, _)
FirstSeen(order, tcs) ==
  IF tcs = <<>> THEN order
  ELSE LET c == Head(tcs) IN
       FirstSeen(IF c.id = "" \/ c.id \in Range(order) THEN order
                 ELSE Append(order, c.id), Tail(tcs))

\* ---------------------------------------------------------------- state
Init ==
  /\ history = <<>>
  /\ pendingToolCalls = {}
  /\ cancelFunc = 0
  /\ currentHandler = 0
  /\ th = [p \in Procs |-> Idle]
  /\ opCount = 0
  /\ issued = {}
  /\ toAnswer = {}
  /\ used = 0
  /\ overlap \in BOOLEAN
  /\ sent = [by |-> "none", msgs |-> <<>>]
  /\ mu = 0
  /\ pendingMu = 0
  /\ lk = [p \in LockProcs |-> LkIdle]

\* calling the cancel function c (0 = nil: not called) cancels the context
\* of the call that made it, if that call is still running
CallCancelFunc(t, c) ==
  [q \in Procs |->
     IF c # 0 /\ t[q].op = "SendMessage" /\ t[q].ctx = c /\ t[q].pc # "done"
     THEN [t[q] EXCEPT !.cancelled = TRUE] ELSE t[q]]

\* variant: the stream is read on a context the agent does not cancel
CurrentContextLiveAlways(t) == TRUE

\* whether a.currentContext, on which the stream of SendMessage is created
\* and read, has not been cancelled
CurrentContextLive(t) == ~t.cancelled

\* a call starts on the first goroutine that runs none; a caller that does
\* not overlap calls waits for the running one to return
Free(p) ==
  /\ th[p].pc \in {"idle", "done"}
  /\ \A q \in Procs : q < p => th[q].pc \notin {"idle", "done"}
  /\ overlap \/ \A q \in Procs : th[q].pc \in {"idle", "done"}

\* ---------------------------------------------------------------- SendMessage
\* the first critical section (a.mu): cancel the previous request, store the
\* handler, make the new context
SendMessage_Begin(p, msgs, h) ==
  /\ Free(p)
  /\ opCount < MaxOps
  /\ currentHandler' = h
  /\ cancelFunc' = opCount + 1
  /\ opCount' = opCount + 1
  /\ th' = [CallCancelFunc(th, cancelFunc) EXCEPT
             ![p] = [Idle EXCEPT !.op = "SendMessage", !.pc = "drain",
                                 !.ctx = opCount + 1, !.handler = h,
                                 !.messages = msgs]]
  /\ UNCHANGED lockVars
  /\ UNCHANGED <<history, pendingToolCalls, issued, toAnswer, sent, used, overlap>>

\* the aborted result of every pending call, the map iterated in order ord
AbortedToolResults(ord) ==
  [i \in 1..Len(ord) |->
     Message(RoleTool, mustMarshal("error", CancelledText), <<>>, ord[i], "")]

\* the second critical section (a.pendingMu): cancellation handling
SendMessage_Drain(p) ==
  /\ th[p].op = "SendMessage" /\ th[p].pc = "drain"
  /\ \E ord \in Perms(pendingToolCalls) :
       th' = [th EXCEPT ![p].pc = "open",
                        ![p].aborted = AbortedToolResults(ord),
                        ![p].drained = pendingToolCalls]
  /\ pendingToolCalls' = {}
  /\ UNCHANGED lockVars
  /\ UNCHANGED <<history, cancelFunc, currentHandler, opCount,
                 issued, toAnswer, sent, used, overlap>>

\* variant: the new messages are added before the aborted results
SendMessageHistoryUserFirst(h, t) == AddMessages(AddMessages(h, t.messages), t.aborted)

\* the history after the aborted results and the new messages are added
SendMessageHistory(h, t) == AddMessages(AddMessages(h, t.aborted), t.messages)

\* add to history, build the request, CreateChatCompletionStream succeeds
SendMessage_Open(p) ==
  /\ th[p].op = "SendMessage" /\ th[p].pc = "open"
  /\ CurrentContextLive(th[p])
  /\ history' = SendMessageHistory(history, th[p])
  /\ sent' = [by |-> "SendMessage",
              msgs |-> ConvertHistory(GetMessagesForContext(history'))]
  /\ th' = [th EXCEPT ![p].pc = "recv"]
  /\ UNCHANGED lockVars
  /\ UNCHANGED <<pendingToolCalls, cancelFunc, currentHandler, opCount, issued, toAnswer, used, overlap>>

\* add to history, build the request, CreateChatCompletionStream fails
SendMessage_OpenFail(p) ==
  /\ th[p].op = "SendMessage" /\ th[p].pc = "open"
  /\ history' = SendMessageHistory(history, th[p])
  /\ sent' = [by |-> "SendMessage",
              msgs |-> ConvertHistory(GetMessagesForContext(history'))]
  /\ th' = [th EXCEPT ![p].pc = "done", ![p].ret = "err", ![p].flag = FALSE]
  /\ UNCHANGED lockVars
  /\ UNCHANGED <<pendingToolCalls, cancelFunc, currentHandler, opCount, issued, toAnswer, used, overlap>>

\* variant: the text of the chunk is put in front
PrependContent(cur, frag) == frag \o cur

\* the accumulated content after a chunk whose text is taken
AppendContent(cur, frag) == cur \o frag

\* stream.Recv() returns a chunk; the body of the loop
SendMessage_Recv(p, chunk) ==
  /\ th[p].op = "SendMessage" /\ th[p].pc = "recv"
  /\ CurrentContextLive(th[p])
  /\ LET t == th[p]
         hasCalls == Len(chunk.toolCalls) > 0
         processing == t.processingToolCall \/ hasCalls
         text == chunk.content # E /\ ~processing
         content2 == IF text THEN AppendContent(t.currentContent, chunk.content)
                     ELSE t.currentContent
         ev1 == IF text THEN <<MessageEvent(RoleAssistant, content2)>> ELSE <<>>
         accum == processing /\ hasCalls
         acc2 == IF accum THEN Accumulate(t.acc, chunk.toolCalls) ELSE t.acc
         marker == chunk.finish = "tool_calls"
     IN \E ord \in (IF marker THEN Perms(DOMAIN acc2) ELSE {<<>>}) :
          LET emit == IF marker THEN EmitFunctionCalls(acc2, ord, pendingToolCalls)
                      ELSE [pending |-> pendingToolCalls, events |-> <<>>]
          IN /\ pendingToolCalls' = emit.pending
             /\ toAnswer' = toAnswer \cup EventIds(emit.events)
             /\ th' = [th EXCEPT ![p] =
                  [t EXCEPT !.processingToolCall = processing,
                            !.currentContent = content2,
                            !.acc = acc2,
                            !.streamEndedWithToolCall = @ \/ accum \/ marker,
                            !.events = @ \o ev1 \o emit.events,
                            !.order = FirstSeen(@, chunk.toolCalls),
                            !.frags = IF chunk.content # E
                                      THEN Append(@, chunk.content) ELSE @,
                            !.seen = @ \cup ChunkIds(chunk),
                            !.calls = @ \o chunk.toolCalls,
                            !.sawTool = @ \/ hasCalls,
                            !.lateText = @ \/ (ev1 # <<>> /\ (t.sawTool \/ hasCalls)),
                            !.marker = IF chunk.finish # "" THEN chunk.finish ELSE @]]
  /\ issued' = issued \cup ChunkIds(chunk)
  /\ used' = UsedAfter(chunk)
  /\ UNCHANGED lockVars
  /\ UNCHANGED <<history, cancelFunc, currentHandler, opCount, sent, overlap>>

\* stream.Recv() returns an error other than io.EOF: a transport error, or
\* the context was cancelled
SendMessage_RecvErr(p) ==
  /\ th[p].op = "SendMessage" /\ th[p].pc = "recv"
  /\ th' = [th EXCEPT ![p].pc = "done", ![p].ret = "err", ![p].flag = FALSE]
  /\ UNCHANGED lockVars
  /\ UNCHANGED <<history, pendingToolCalls, cancelFunc, currentHandler,
                 opCount, issued, toAnswer, sent, used, overlap>>

\* stream.Recv() returns io.EOF: leave the loop, add the final assistant
\* message, return
SendMessage_RecvEOF(p) ==
  /\ th[p].op = "SendMessage" /\ th[p].pc = "recv"
  /\ CurrentContextLive(th[p])
  /\ \E ord \in (IF th[p].streamEndedWithToolCall
                 THEN Perms(DOMAIN th[p].acc) ELSE {<<>>}) :
       LET msgs == FinalAssistantMessages(th[p], ord) IN
       /\ history' = AddMessages(history, msgs)
       /\ th' = [th EXCEPT ![p].pc = "done", ![p].ret = "nil",
                           ![p].flag = th[p].streamEndedWithToolCall,
                           ![p].eof = TRUE,
                           ![p].commits = msgs]
  /\ UNCHANGED lockVars
  /\ UNCHANGED <<pendingToolCalls, cancelFunc, currentHandler, opCount, issued, toAnswer, sent, used, overlap>>

\* ---------------------------------------------------------------- Cancel
\* variant: Cancel also forgets the pending calls
CancelClearingPending ==
  /\ th' = CallCancelFunc(th, cancelFunc)
  /\ cancelFunc' = 0
  /\ pendingToolCalls' = {}
  /\ UNCHANGED lockVars
  /\ UNCHANGED <<history, currentHandler, opCount,
                 issued, toAnswer, sent, used, overlap>>

Cancel ==
  /\ th' = CallCancelFunc(th, cancelFunc)
  /\ cancelFunc' = 0
  /\ UNCHANGED lockVars
  /\ UNCHANGED <<history, pendingToolCalls, currentHandler, opCount,
                 issued, toAnswer, sent, used, overlap>>

FinalizeInteraction ==
  /\ currentHandler' = 0
  /\ th' = CallCancelFunc(th, cancelFunc)
  /\ cancelFunc' = 0
  /\ UNCHANGED lockVars
  /\ UNCHANGED <<history, pendingToolCalls, opCount, issued, toAnswer, sent, used, overlap>>

\* ---------------------------------------------------------------- SendFunctionResult
\* the first critical section (a.mu): read the current handler.  The caller
\* reports the result of a call it was handed.
SendFunctionResult_Begin(p, callID, functionName, output, success) ==
  /\ Free(p)
  /\ opCount < MaxOps
  /\ callID \in toAnswer
  /\ toAnswer' = toAnswer \ {callID}
  /\ opCount' = opCount + 1
  /\ th' = [th EXCEPT ![p] = [Idle EXCEPT !.op = "SendFunctionResult",
                                          !.pc = "resolve",
                                          !.handler = currentHandler,
                                          !.callID = callID,
                                          !.fname = functionName,
                                          !.output = output,
                                          !.success = success]]
  /\ UNCHANGED lockVars
  /\ UNCHANGED <<history, pendingToolCalls, cancelFunc, currentHandler,
                 issued, sent, used, overlap>>

\* delete(a.pendingToolCalls, callID)
Resolve(pend, callID) == pend \ {callID}

\* the second critical section (a.pendingMu): remove from the pending calls
SendFunctionResult_Resolve(p) ==
  /\ th[p].op = "SendFunctionResult" /\ th[p].pc = "resolve"
  /\ pendingToolCalls' = Resolve(pendingToolCalls, th[p].callID)
  /\ th' = [th EXCEPT ![p].pc = "open", ![p].found = pendingToolCalls]
  /\ UNCHANGED lockVars
  /\ UNCHANGED <<history, cancelFunc, currentHandler, opCount,
                 issued, toAnswer, sent, used, overlap>>

\* variant: a failed result is written as an output
ToolResultMessageAsOutput(callID, functionName, output, success) ==
  Message(RoleTool, mustMarshal("output", output), <<>>, callID, functionName)

\* the tool result message
ToolResultMessage(callID, functionName, output, success) ==
  Message(RoleTool,
          IF success THEN mustMarshal("output", output)
          ELSE mustMarshal("error", output),
          <<>>, callID, functionName)

ResultOf(t) == ToolResultMessage(t.callID, t.fname, t.output, t.success)

\* add the tool result; no handler: return nil
SendFunctionResult_NoHandler(p) ==
  /\ th[p].op = "SendFunctionResult" /\ th[p].pc = "open"
  /\ th[p].handler = 0
  /\ history' = AddMessage(history, ResultOf(th[p]))
  /\ th' = [th EXCEPT ![p].pc = "done", ![p].ret = "nil"]
  /\ UNCHANGED lockVars
  /\ UNCHANGED <<pendingToolCalls, cancelFunc, currentHandler, opCount, issued, toAnswer, sent, used, overlap>>

\* add the tool result, build the filtered request, the follow-up stream opens
SendFunctionResult_Open(p) ==
  /\ th[p].op = "SendFunctionResult" /\ th[p].pc = "open"
  /\ th[p].handler # 0
  /\ history' = AddMessage(history, ResultOf(th[p]))
  /\ sent' = [by |-> "SendFunctionResult",
              msgs |-> FilterHistory(GetMessagesForContext(history'), 1, {})]
  /\ th' = [th EXCEPT ![p].pc = "recv"]
  /\ UNCHANGED lockVars
  /\ UNCHANGED <<pendingToolCalls, cancelFunc, currentHandler, opCount, issued, toAnswer, used, overlap>>

\* add the tool result, build the filtered request, the follow-up stream
\* fails to open
SendFunctionResult_OpenFail(p) ==
  /\ th[p].op = "SendFunctionResult" /\ th[p].pc = "open"
  /\ th[p].handler # 0
  /\ history' = AddMessage(history, ResultOf(th[p]))
  /\ sent' = [by |-> "SendFunctionResult",
              msgs |-> FilterHistory(GetMessagesForContext(history'), 1, {})]
  /\ th' = [th EXCEPT ![p].pc = "done", ![p].ret = "err"]
  /\ UNCHANGED lockVars
  /\ UNCHANGED <<pendingToolCalls, cancelFunc, currentHandler, opCount, issued, toAnswer, used, overlap>>

\* currentFunctionCall after the tool-call part of a chunk
NestedCall(cfc, tcs) ==
  IF Len(tcs) = 0 THEN cfc
  ELSE IF ~cfc.set
       THEN [set |-> TRUE, id |-> tcs[1].id, name |-> tcs[1].name,
             args |-> tcs[1].args]
       ELSE [cfc EXCEPT !.args = @ \o tcs[1].args]

\* whether the follow-up loop hands the text of a chunk to the handler
FollowupTakesText(t, chunk) == chunk.content # E

\* the follow-up stream returns a chunk; the body of the loop.  The stream
\* is read on the context the caller passed, which the agent never cancels.
SendFunctionResult_Recv(p, chunk) ==
  /\ th[p].op = "SendFunctionResult" /\ th[p].pc = "recv"
  /\ LET t == th[p]
         hasCalls == Len(chunk.toolCalls) > 0
         text == FollowupTakesText(t, chunk)
         content2 == IF text THEN AppendContent(t.currentContent, chunk.content)
                     ELSE t.currentContent
         ev1 == IF text THEN <<MessageEvent(RoleAssistant, content2)>> ELSE <<>>
         cfc2 == NestedCall(t.cfc, chunk.toolCalls)
         fin == chunk.finish = "tool_calls" /\ cfc2.set
         nested == Message(RoleAssistant, E,
                           <<ToolCall(cfc2.id, cfc2.name, cfc2.args)>>, "", "")
         ev2 == IF fin
                THEN <<FunctionCallEvent(cfc2.id, cfc2.name, cfc2.args,
                                         cfc2.id \in pendingToolCalls)>>
                ELSE <<>>
     IN /\ history' = IF fin THEN AddMessage(history, nested) ELSE history
        /\ pendingToolCalls' = pendingToolCalls
        /\ toAnswer' = toAnswer \cup (EventIds(ev2) \ {""})
        /\ th' = [th EXCEPT ![p] =
             [t EXCEPT !.currentContent = content2,
                       !.cfc = IF fin THEN NoCall ELSE cfc2,
                       !.events = @ \o ev1 \o ev2,
                       !.order = FirstSeen(@, chunk.toolCalls),
                       !.frags = IF chunk.content # E
                                 THEN Append(@, chunk.content) ELSE @,
                       !.seen = @ \cup ChunkIds(chunk),
                       !.calls = @ \o chunk.toolCalls,
                       !.sawTool = @ \/ hasCalls,
                       !.lateText = @ \/ (ev1 # <<>> /\ (t.sawTool \/ hasCalls)),
                       !.marker = IF chunk.finish # "" THEN chunk.finish ELSE @,
                       !.commits = IF fin THEN Append(@, nested) ELSE @]]
  /\ issued' = issued \cup ChunkIds(chunk)
  /\ used' = UsedAfter(chunk)
  /\ UNCHANGED lockVars
  /\ UNCHANGED <<cancelFunc, currentHandler, opCount, sent, overlap>>

\* the follow-up stream returns an error other than io.EOF
SendFunctionResult_RecvErr(p) ==
  /\ th[p].op = "SendFunctionResult" /\ th[p].pc = "recv"
  /\ th' = [th EXCEPT ![p].pc = "done", ![p].ret = "err"]
  /\ UNCHANGED lockVars
  /\ UNCHANGED <<history, pendingToolCalls, cancelFunc, currentHandler,
                 opCount, issued, toAnswer, sent, used, overlap>>

\* variant: the text of the follow-up is not added to the history
FollowupFinalMessagesNone(t) == <<>>

\* the final assistant message of the follow-up stream, if any
FollowupFinalMessages(t) ==
  IF t.currentContent # E
  THEN <<Message(RoleAssistant, t.currentContent, <<>>, "", "")>>
  ELSE <<>>

\* the completion signal: sent when currentFunctionCall is nil after the loop
FollowupSignal(t) == IF ~t.cfc.set THEN <<FollowupCompleteEvent>> ELSE <<>>

\* the follow-up stream returns io.EOF: leave the loop, add the final
\* assistant message, signal completion, return
SendFunctionResult_RecvEOF(p) ==
  /\ th[p].op = "SendFunctionResult" /\ th[p].pc = "recv"
  /\ LET t == th[p]
         msgs == FollowupFinalMessages(t)
         ev == FollowupSignal(t)
     IN /\ history' = AddMessages(history, msgs)
        /\ th' = [th EXCEPT ![p].pc = "done", ![p].ret = "nil",
                            ![p].eof = TRUE,
                            ![p].events = @ \o ev,
                            ![p].commits = @ \o msgs]
  /\ UNCHANGED lockVars
  /\ UNCHANGED <<pendingToolCalls, cancelFunc, currentHandler, opCount, issued, toAnswer, sent, used, overlap>>

\* ---------------------------------------------------------------- locks
\* The same four operations at the grain of their lock operations: each
\* Lock, each Unlock, each blocking call and each handler call is a step.
modelVars == <<history, pendingToolCalls, cancelFunc, currentHandler,
               th, opCount, issued, toAnswer, overlap, used, sent>>

LockOps == {"SendMessage", "SendFunctionResult", "Cancel", "FinalizeInteraction"}

At(p, op, pc) == lk[p].op = op /\ lk[p].pc = pc

\* a goroutine calls an operation; each of the four starts with a.mu.Lock()
Call(p, op) ==
  /\ lk[p].pc = "idle"
  /\ lk' = [lk EXCEPT ![p] = [op |-> op, pc |-> "mu.Lock", n |-> 0]]
  /\ UNCHANGED <<mu, pendingMu>>
  /\ UNCHANGED modelVars

\* a.mu.Lock() returns
SendMessage_muLock(p) ==
  /\ At(p, "SendMessage", "mu.Lock") /\ mu = 0
  /\ mu' = p
  /\ lk' = [lk EXCEPT ![p].pc = "mu.held"]
  /\ UNCHANGED pendingMu
  /\ UNCHANGED modelVars

\* variant: a.mu is kept until the end of the cancellation handling
SendMessage_muKept(p) ==
  /\ At(p, "SendMessage", "mu.held")
  /\ lk' = [lk EXCEPT ![p].pc = "pendingMu.Lock"]
  /\ UNCHANGED <<mu, pendingMu>>
  /\ UNCHANGED modelVars

\* cancel the previous request, store the handler, make the context;
\* a.mu.Unlock()
SendMessage_muUnlock(p) ==
  /\ At(p, "SendMessage", "mu.held")
  /\ mu' = 0
  /\ lk' = [lk EXCEPT ![p].pc = "pendingMu.Lock"]
  /\ UNCHANGED pendingMu
  /\ UNCHANGED modelVars

\* a.pendingMu.Lock() returns
SendMessage_pendingMuLock(p) ==
  /\ At(p, "SendMessage", "pendingMu.Lock") /\ pendingMu = 0
  /\ pendingMu' = p
  /\ lk' = [lk EXCEPT ![p].pc = "pendingMu.held"]
  /\ UNCHANGED mu
  /\ UNCHANGED modelVars

\* the pending calls are drained; a.pendingMu.Unlock()
SendMessage_pendingMuUnlock(p) ==
  /\ At(p, "SendMessage", "pendingMu.held")
  /\ pendingMu' = 0
  /\ lk' = [lk EXCEPT ![p].pc = "open"]
  /\ UNCHANGED mu
  /\ UNCHANGED modelVars

\* the history is extended and CreateChatCompletionStream returns: a stream
\* or an error
SendMessage_CreateStream(p) ==
  /\ At(p, "SendMessage", "open")
  /\ \E ok \in BOOLEAN :
       lk' = [lk EXCEPT ![p] = IF ok THEN [@ EXCEPT !.pc = "recv"] ELSE LkIdle]
  /\ UNCHANGED <<mu, pendingMu>>
  /\ UNCHANGED modelVars

\* stream.Recv() returns: an error (return), io.EOF (commit and return), a
\* chunk that makes no call to the handler, a chunk whose text is handed to
\* the handler, or the tool_calls finish reason with n accumulated calls
SendMessage_StreamRecv(p) ==
  /\ At(p, "SendMessage", "recv")
  /\ \E r \in {"return", "chunk", "message", "tool_calls"}, k \in 1..MaxIds :
       lk' = [lk EXCEPT ![p] =
                IF r = "return" THEN LkIdle
                ELSE IF r = "chunk" THEN @
                ELSE IF r = "message" THEN [@ EXCEPT !.pc = "handler"]
                ELSE [@ EXCEPT !.pc = "track.Lock", !.n = k]]
  /\ UNCHANGED <<mu, pendingMu>>
  /\ UNCHANGED modelVars

\* in the loop over the accumulated calls: a.pendingMu.Lock() returns
SendMessage_trackLock(p) ==
  /\ At(p, "SendMessage", "track.Lock") /\ pendingMu = 0
  /\ pendingMu' = p
  /\ lk' = [lk EXCEPT ![p].pc = "track.held"]
  /\ UNCHANGED mu
  /\ UNCHANGED modelVars

\* the call is tracked as pending; a.pendingMu.Unlock(); the handler is
\* called with the function_call item
SendMessage_trackUnlock(p) ==
  /\ At(p, "SendMessage", "track.held")
  /\ pendingMu' = 0
  /\ lk' = [lk EXCEPT ![p].pc = "handler"]
  /\ UNCHANGED mu
  /\ UNCHANGED modelVars

\* the handler returns: the next accumulated call, or the next Recv
SendMessage_HandlerReturns(p) ==
  /\ At(p, "SendMessage", "handler")
  /\ lk' = [lk EXCEPT ![p] = IF @.n > 1
                             THEN [@ EXCEPT !.pc = "track.Lock", !.n = @ - 1]
                             ELSE [@ EXCEPT !.pc = "recv", !.n = 0]]
  /\ UNCHANGED <<mu, pendingMu>>
  /\ UNCHANGED modelVars

\* a.mu.Lock() returns
SendFunctionResult_muLock(p) ==
  /\ At(p, "SendFunctionResult", "mu.Lock") /\ mu = 0
  /\ mu' = p
  /\ lk' = [lk EXCEPT ![p].pc = "mu.held"]
  /\ UNCHANGED pendingMu
  /\ UNCHANGED modelVars

\* the handler is read; a.mu.Unlock()
SendFunctionResult_muUnlock(p) ==
  /\ At(p, "SendFunctionResult", "mu.held")
  /\ mu' = 0
  /\ lk' = [lk EXCEPT ![p].pc = "pendingMu.Lock"]
  /\ UNCHANGED pendingMu
  /\ UNCHANGED modelVars

\* a.pendingMu.Lock() returns
SendFunctionResult_pendingMuLock(p) ==
  /\ At(p, "SendFunctionResult", "pendingMu.Lock") /\ pendingMu = 0
  /\ pendingMu' = p
  /\ lk' = [lk EXCEPT ![p].pc = "pendingMu.held"]
  /\ UNCHANGED mu
  /\ UNCHANGED modelVars

\* the call id is deleted; a.pendingMu.Unlock()
SendFunctionResult_pendingMuUnlock(p) ==
  /\ At(p, "SendFunctionResult", "pendingMu.held")
  /\ pendingMu' = 0
  /\ lk' = [lk EXCEPT ![p].pc = "open"]
  /\ UNCHANGED mu
  /\ UNCHANGED modelVars

\* the tool result is added; without a handler the call returns, otherwise
\* CreateChatCompletionStream returns a stream or an error
SendFunctionResult_CreateStream(p) ==
  /\ At(p, "SendFunctionResult", "open")
  /\ \E ok \in BOOLEAN :
       lk' = [lk EXCEPT ![p] = IF ok THEN [@ EXCEPT !.pc = "recv"] ELSE LkIdle]
  /\ UNCHANGED <<mu, pendingMu>>
  /\ UNCHANGED modelVars

\* the follow-up stream.Recv() returns: an error (return), io.EOF with a
\* tool call outstanding (return), io.EOF otherwise (followup_complete is
\* handed to the handler, n = 1), a chunk that makes no call to the
\* handler, or a chunk for which the handler is called
SendFunctionResult_StreamRecv(p) ==
  /\ At(p, "SendFunctionResult", "recv")
  /\ \E r \in {"return", "complete", "chunk", "item"} :
       lk' = [lk EXCEPT ![p] =
                IF r = "return" THEN LkIdle
                ELSE IF r = "chunk" THEN @
                ELSE IF r = "item" THEN [@ EXCEPT !.pc = "handler"]
                ELSE [@ EXCEPT !.pc = "handler", !.n = 1]]
  /\ UNCHANGED <<mu, pendingMu>>
  /\ UNCHANGED modelVars

\* the handler returns: the next Recv, or the call returns after the
\* completion signal
SendFunctionResult_HandlerReturns(p) ==
  /\ At(p, "SendFunctionResult", "handler")
  /\ lk' = [lk EXCEPT ![p] = IF @.n = 1 THEN LkIdle ELSE [@ EXCEPT !.pc = "recv"]]
  /\ UNCHANGED <<mu, pendingMu>>
  /\ UNCHANGED modelVars

\* a.mu.Lock() returns
Cancel_muLock(p) ==
  /\ At(p, "Cancel", "mu.Lock") /\ mu = 0
  /\ mu' = p
  /\ lk' = [lk EXCEPT ![p].pc = "mu.held"]
  /\ UNCHANGED pendingMu
  /\ UNCHANGED modelVars

\* the cancel function is called and set to nil; a.mu.Unlock(); return
Cancel_muUnlock(p) ==
  /\ At(p, "Cancel", "mu.held")
  /\ mu' = 0
  /\ lk' = [lk EXCEPT ![p] = LkIdle]
  /\ UNCHANGED pendingMu
  /\ UNCHANGED modelVars

\* a.mu.Lock() returns
FinalizeInteraction_muLock(p) ==
  /\ At(p, "FinalizeInteraction", "mu.Lock") /\ mu = 0
  /\ mu' = p
  /\ lk' = [lk EXCEPT ![p].pc = "mu.held"]
  /\ UNCHANGED pendingMu
  /\ UNCHANGED modelVars

\* the handler is cleared, the cancel function called; return, the deferred
\* a.mu.Unlock() runs
FinalizeInteraction_muUnlock(p) ==
  /\ At(p, "FinalizeInteraction", "mu.held")
  /\ mu' = 0
  /\ lk' = [lk EXCEPT ![p] = LkIdle]
  /\ UNCHANGED pendingMu
  /\ UNCHANGED modelVars

LockNext ==
  \/ \E p \in LockProcs, op \in LockOps : Call(p, op)
  \/ \E p \in LockProcs : SendMessage_muLock(p)
  \/ \E p \in LockProcs : SendMessage_muUnlock(p)
  \/ \E p \in LockProcs : SendMessage_pendingMuLock(p)
  \/ \E p \in LockProcs : SendMessage_pendingMuUnlock(p)
  \/ \E p \in LockProcs : SendMessage_CreateStream(p)
  \/ \E p \in LockProcs : SendMessage_StreamRecv(p)
  \/ \E p \in LockProcs : SendMessage_trackLock(p)
  \/ \E p \in LockProcs : SendMessage_trackUnlock(p)
  \/ \E p \in LockProcs : SendMessage_HandlerReturns(p)
  \/ \E p \in LockProcs : SendFunctionResult_muLock(p)
  \/ \E p \in LockProcs : SendFunctionResult_muUnlock(p)
  \/ \E p \in LockProcs : SendFunctionResult_pendingMuLock(p)
  \/ \E p \in LockProcs : SendFunctionResult_pendingMuUnlock(p)
  \/ \E p \in LockProcs : SendFunctionResult_CreateStream(p)
  \/ \E p \in LockProcs : SendFunctionResult_StreamRecv(p)
  \/ \E p \in LockProcs : SendFunctionResult_HandlerReturns(p)
  \/ \E p \in LockProcs : Cancel_muLock(p)
  \/ \E p \in LockProcs : Cancel_muUnlock(p)
  \/ \E p \in LockProcs : FinalizeInteraction_muLock(p)
  \/ \E p \in LockProcs : FinalizeInteraction_muUnlock(p)

LockSpec == Init /\ [][LockNext]_vars

\* ---------------------------------------------------------------- system
Next ==
  \/ \E p \in Procs, h \in Handlers : SendMessage_Begin(p, <<UserMessage>>, h)
  \/ \E p \in Procs : SendMessage_Drain(p)
  \/ \E p \in Procs : SendMessage_Open(p)
  \/ \E p \in Procs : SendMessage_OpenFail(p)
  \/ \E p \in Procs : \E chunk \in Chunks(p) : SendMessage_Recv(p, chunk)
  \/ \E p \in Procs : SendMessage_RecvErr(p)
  \/ \E p \in Procs : SendMessage_RecvEOF(p)
  \/ Cancel
  \/ FinalizeInteraction
  \/ \E p \in Procs, id \in Ids, n \in Names, o \in Outputs, ok \in BOOLEAN :
       SendFunctionResult_Begin(p, id, n, o, ok)
  \/ \E p \in Procs : SendFunctionResult_Resolve(p)
  \/ \E p \in Procs : SendFunctionResult_NoHandler(p)
  \/ \E p \in Procs : SendFunctionResult_Open(p)
  \/ \E p \in Procs : SendFunctionResult_OpenFail(p)
  \/ \E p \in Procs : \E chunk \in Chunks(p) : SendFunctionResult_Recv(p, chunk)
  \/ \E p \in Procs : SendFunctionResult_RecvErr(p)
  \/ \E p \in Procs : SendFunctionResult_RecvEOF(p)

Spec == Init /\ [][Next]_vars

\* ---------------------------------------------------------------- properties
IsCallEntry(m) == m.role = RoleAssistant /\ Len(m.toolCalls) > 0

IsTextEntry(m) == m.role = RoleAssistant /\ Len(m.toolCalls) = 0

IsResultOf(m, id) == m.role = RoleTool /\ m.toolCallId = id

MsgEvents(evs) == SelectSeq(evs, LAMBDA e : e.type = "message")

CallEvents(evs) == SelectSeq(evs, LAMBDA e : e.type = "function_call")

IsSendMessage(p) == th[p].op = "SendMessage"

IsSendFunctionResult(p) == th[p].op = "SendFunctionResult"

\* every call id of an assistant entry has a tool entry later in msgs
NoDangling(msgs) ==
  \A i \in 1..Len(msgs) :
    IsCallEntry(msgs[i]) =>
      \A id \in CallIds(msgs[i]) :
        \E j \in (i + 1)..Len(msgs) : IsResultOf(msgs[j], id)

\* C1: the message sequence a SendMessage sends upstream has, for every
\* tool-call id of an assistant entry, a tool entry with that id later in
\* the sequence, whether the id was issued by an initial or a follow-up turn.
C1_NoDanglingCall == sent.by = "SendMessage" => NoDangling(sent.msgs)

SyntheticResult(id) ==
  [role |-> "tool",
   content |-> <<"{", "error", ":", "execution cancelled by user", "}">>,
   toolCalls |-> <<>>, toolCallId |-> id, name |-> ""]

\* C2: the cancellation handling of SendMessage, entered with the pending
\* set P, empties the pending set; the call then appends to the log exactly
\* one tool entry per id of P, with that toolCallId and the content
\* {"error":"execution cancelled by user"}, followed by the new user
\* entries, and nothing else (no synthetic entry when P is empty).
C2_Reconciliation ==
  [][\A p \in Procs :
       /\ (IsSendMessage(p) /\ th[p].pc = "drain" /\ th'[p].pc = "open")
            => /\ pendingToolCalls' = {}
               /\ th'[p].drained = pendingToolCalls
       /\ (IsSendMessage(p) /\ th[p].pc = "open" /\ th'[p].pc # "open")
            => LET P == th[p].drained
                   n == Cardinality(P)
                   base == Len(history)
               IN /\ Len(history') = base + n + Len(th[p].messages)
                  /\ SubSeq(history', 1, base) = history
                  /\ \A id \in P :
                       Cardinality({i \in (base + 1)..(base + n) :
                                      history'[i] = SyntheticResult(id)}) = 1
                  /\ SubSeq(history', base + n + 1, Len(history')) = th[p].messages
    ]_vars

\* a SendMessage found a call pending and its log has the synthetic entry
\* immediately before the new user entry
C2_Witness ==
  \E p \in Procs :
    /\ IsSendMessage(p) /\ th[p].pc \in {"recv", "done"}
    /\ th[p].drained # {}
    /\ pendingToolCalls = {}
    /\ \E i \in 1..(Len(history) - 1) :
         /\ \E id \in th[p].drained : history[i] = SyntheticResult(id)
         /\ history[i + 1] = UserMessage

\* C3: when the stream of a SendMessage turn delivers the tool_calls
\* marker, the pending set becomes exactly the set of call ids the turn has
\* accumulated.
C3_PendingIsAccumulated ==
  [][\A p \in Procs :
       (IsSendMessage(p) /\ th[p].pc = "recv" /\ th[p].marker = ""
          /\ th'[p].marker = "tool_calls")
         => pendingToolCalls' = DOMAIN th'[p].acc
    ]_vars

\* a turn finalized with two accumulated ids, both pending
C3_Witness ==
  \E p \in Procs :
    /\ IsSendMessage(p) /\ th[p].marker = "tool_calls"
    /\ Cardinality(DOMAIN th[p].acc) = 2
    /\ pendingToolCalls = DOMAIN th[p].acc

\* C4: every function_call event handed to the sink, by an initial turn or
\* by a follow-up turn, has its id in the pending set when the sink is
\* called.
C4_RegisteredAtDelivery ==
  \A p \in Procs :
    \A i \in 1..Len(th[p].events) :
      th[p].events[i].type = "function_call" => th[p].events[i].regd

ExpectedResult(t) ==
  [role |-> "tool",
   content |-> <<"{", IF t.success THEN "output" ELSE "error", ":", t.output, "}">>,
   toolCalls |-> <<>>, toolCallId |-> t.callID, name |-> t.fname]

\* C5: SendFunctionResult(id, name, output, success) removes id from the
\* pending set and appends exactly one tool entry with toolCallId = id and
\* name = name whose content is {"output": output} on success and
\* {"error": output} on failure; a failed tool does not make the call
\* return an error: without a handler the call returns nil.
C5_ToolResult ==
  [][\A p \in Procs :
       /\ (IsSendFunctionResult(p) /\ th[p].pc = "resolve" /\ th'[p].pc = "open")
            => pendingToolCalls' = pendingToolCalls \ {th[p].callID}
       /\ (IsSendFunctionResult(p) /\ th[p].pc = "open" /\ th'[p].pc # "open")
            => /\ history' = Append(history, ExpectedResult(th[p]))
               /\ (th[p].handler = 0 => th'[p].ret = "nil")
    ]_vars

\* a failed tool was reported, its error entry is in the log, the follow-up
\* ran to the end of its stream and the call returned nil
C5_Witness ==
  \E p \in Procs :
    /\ IsSendFunctionResult(p) /\ th[p].pc = "done"
    /\ ~th[p].success /\ th[p].eof /\ th[p].ret = "nil"
    /\ th[p].callID \notin pendingToolCalls
    /\ \E i \in 1..Len(history) : history[i] = ExpectedResult(th[p])

RECURSIVE Flatten(_, _)
Flatten(frags, k) == IF k = 0 THEN E ELSE Flatten(frags, k - 1) \o frags[k]

\* C6: in a turn (initial or follow-up) whose stream has carried no
\* tool-call fragment, there is one message event per non-empty text
\* fragment received and the k-th carries the concatenation of the first k
\* fragments.
C6_Cumulative ==
  \A p \in Procs :
    ~th[p].sawTool =>
      LET m == MsgEvents(th[p].events) IN
      /\ Len(m) = Len(th[p].frags)
      /\ \A k \in 1..Len(m) : m[k].content = Flatten(th[p].frags, k)

\* a turn without tool-call fragments that received three text fragments,
\* not all the same
C6_Witness ==
  \E p \in Procs :
    /\ ~th[p].sawTool
    /\ Len(th[p].frags) = 3
    /\ th[p].frags[1] # th[p].frags[2]
    /\ Len(MsgEvents(th[p].events)) = 3

\* C7: in no turn, initial or follow-up, is a message event emitted once a
\* fragment carrying tool-call data has been observed, the fragment that
\* carries the first tool-call data included.
C7_ModeLockIn == \A p \in Procs : ~th[p].lateText

\* an assistant text entry stands after a call-issuing entry and before a
\* result of one of its calls
Interleaved(msgs) ==
  \E i, j \in 1..Len(msgs) :
    /\ i < j
    /\ IsCallEntry(msgs[i])
    /\ IsTextEntry(msgs[j])
    /\ \E id \in CallIds(msgs[i]) :
         ~ \E k \in (i + 1)..(j - 1) : IsResultOf(msgs[k], id)

\* C8: no message sequence sent upstream, by SendMessage or by
\* SendFunctionResult, has an assistant text entry after a call-issuing
\* assistant entry and before all of that entry's tool results.
C8_Projection == ~Interleaved(sent.msgs)

\* C9: a turn of SendMessage finalized by the tool_calls marker delivers its
\* function_call events in the order in which the ids were first seen, and
\* the tool calls of the assistant entry it commits are in that order.
C9_FirstSeenOrder ==
  \A p \in Procs :
    (IsSendMessage(p) /\ th[p].marker = "tool_calls") =>
      LET ev == CallEvents(th[p].events) IN
      /\ [i \in 1..Len(ev) |-> ev[i].id] = th[p].order
      /\ \A k \in 1..Len(th[p].commits) :
           [i \in 1..Len(th[p].commits[k].toolCalls) |->
              th[p].commits[k].toolCalls[i].id] = th[p].order

\* C10: a call whose stream reached end-of-stream without a terminal marker
\* returns an error and has committed no assistant entry.
C10_EofWithoutMarker ==
  \A p \in Procs :
    (th[p].eof /\ th[p].marker = "") =>
      (th[p].ret = "err" /\ th[p].commits = <<>>)

AssistantCount(h) == Len(SelectSeq(h, LAMBDA m : m.role = RoleAssistant))

\* C11: a turn whose context was cancelled (by Cancel, FinalizeInteraction
\* or the SendMessage that superseded it) before its stream ended commits
\* no assistant entry: no step of such a call adds an assistant entry to the
\* log, text or tool calls, and the call records no commit.
C11_CancelledCommitsNothing ==
  [][\A p \in Procs :
       th'[p].cancelled =>
         /\ th'[p].commits = <<>>
         /\ (th'[p] # th[p] => AssistantCount(history') = AssistantCount(history))
    ]_vars

\* a SendMessage was cancelled after text had been received and handed to
\* the sink; it returned an error and the log has no assistant entry
C11_Witness ==
  \E p \in Procs :
    /\ IsSendMessage(p) /\ th[p].cancelled /\ th[p].pc = "done"
    /\ th[p].ret = "err"
    /\ th[p].frags # <<>> /\ MsgEvents(th[p].events) # <<>>
    /\ AssistantCount(history) = 0

\* C12: at most one stream is in flight: whenever SendMessage or
\* SendFunctionResult opens a stream, every stream opened earlier by either
\* operation has ended or has had its context cancelled.
C12_OneStreamInFlight ==
  [][\A p \in Procs :
       (th[p].pc = "open" /\ th'[p].pc = "recv")
         => \A q \in Procs \ {p} : th[q].pc = "recv" => th[q].cancelled
    ]_vars

TextEntry(content) ==
  [role |-> "assistant", content |-> content, toolCalls |-> <<>>,
   toolCallId |-> "", name |-> ""]

\* the log ends with the entry that issued exactly the call goroutine p
\* answers, followed by the result p added
EndsWithCallAndResult(h, t) ==
  /\ Len(h) >= 2
  /\ h[Len(h)] = ExpectedResult(t)
  /\ IsCallEntry(h[Len(h) - 1])
  /\ Len(h[Len(h) - 1].toolCalls) = 1
  /\ CallIds(h[Len(h) - 1]) = {t.callID}

\* C13: when SendFunctionResult answers the only pending call c1, the log
\* ending with assistant(toolCalls=[c1]), tool(c1), and its follow-up
\* stream is plain text, then at the end of the stream the sink has received
\* one cumulative message event per fragment and then exactly one
\* followup_complete, as the last event; the pending set is empty; and the
\* log ends with assistant(toolCalls=[c1]), tool(c1), assistant(text), the
\* text being the concatenation of the fragments.
C13_FollowupText ==
  [][\A p \in Procs :
       (/\ IsSendFunctionResult(p) /\ th[p].pc = "recv" /\ th'[p].eof
        /\ th[p].found = {th[p].callID}
        /\ ~th[p].sawTool /\ th[p].frags # <<>>
        /\ EndsWithCallAndResult(history, th[p]))
         => LET ev == th'[p].events
                n == Len(ev)
                fr == th[p].frags
            IN /\ n = Len(fr) + 1
               /\ \A k \in 1..(n - 1) :
                    ev[k].type = "message" /\ ev[k].content = Flatten(fr, k)
               /\ ev[n].type = "followup_complete"
               /\ pendingToolCalls' = {}
               /\ history' = Append(history, TextEntry(Flatten(fr, Len(fr))))
    ]_vars

\* the scenario has run with two different fragments: the log is user,
\* assistant(toolCalls=[c1]), tool(c1), assistant(text)
C13_Witness ==
  \E p \in Procs :
    /\ IsSendFunctionResult(p) /\ th[p].pc = "done" /\ th[p].eof
    /\ th[p].found = {th[p].callID}
    /\ ~th[p].sawTool /\ Len(th[p].frags) = 2 /\ th[p].frags[1] # th[p].frags[2]
    /\ Len(th[p].events) = 3 /\ th[p].events[3].type = "followup_complete"
    /\ pendingToolCalls = {}
    /\ Len(history) = 4
    /\ history[1] = UserMessage
    /\ EndsWithCallAndResult(SubSeq(history, 1, 3), th[p])
    /\ history[4] = TextEntry(Flatten(th[p].frags, 2))

HasFollowupComplete(evs) == \E i \in 1..Len(evs) : evs[i].type = "followup_complete"

\* C14: a follow-up turn emits followup_complete if and only if it did not
\* end in new tool calls: a turn that handed a function_call event to the
\* sink never emits followup_complete, and a turn whose stream ended having
\* carried no tool-call data does.
C14_FollowupCompleteIffNoToolCalls ==
  \A p \in Procs :
    IsSendFunctionResult(p) =>
      /\ (CallEvents(th[p].events) # <<>> => ~HasFollowupComplete(th[p].events))
      /\ (th[p].eof /\ ~th[p].sawTool => HasFollowupComplete(th[p].events))

ToolEntries(h, id) == Cardinality({i \in 1..Len(h) : IsResultOf(h[i], id)})

IssuedInLog(h) == UNION {CallIds(h[i]) : i \in {j \in 1..Len(h) : IsCallEntry(h[j])}}

\* the call id has been answered by a call that has added its entries to the log
Answered(id) ==
  \E p \in Procs :
    /\ th[p].pc \in {"recv", "done"}
    /\ \/ IsSendFunctionResult(p) /\ th[p].callID = id
       \/ IsSendMessage(p) /\ id \in th[p].drained

\* C15: for every tool-call id issued in an assistant entry of the log, the
\* log never has two tool entries with that toolCallId, and once the call
\* has been answered, by SendFunctionResult or by the cancellation handling
\* of a later SendMessage, it has exactly one.
C15_ExactlyOneToolEntry ==
  \A id \in IssuedInLog(history) :
    /\ ToolEntries(history, id) <= 1
    /\ (Answered(id) => ToolEntries(history, id) = 1)

\* C16: a Cancel that finds a cancel function cancels the context of every
\* stream being read, whether SendMessage or the follow-up of
\* SendFunctionResult opened it, so that the stream delivers no completed
\* turn (a cancelled context commits nothing: C11).
C16_CancelCancelsActiveStream ==
  [][(cancelFunc # 0 /\ cancelFunc' = 0 /\ currentHandler' = currentHandler)
       => \A p \in Procs : th[p].pc = "recv" => th'[p].cancelled
    ]_vars

\* C17: Cancel leaves the pending set, the log and the current handler
\* unchanged; after a Cancel the cancel function is nil, so a second Cancel
\* changes nothing; and the ids pending at a Cancel stay pending until the
\* cancellation handling of a SendMessage drains them or a
\* SendFunctionResult answers them: no other step removes an id.
C17_CancelFrame ==
  [][/\ Cancel => /\ UNCHANGED <<pendingToolCalls, history, currentHandler>>
                  /\ cancelFunc' = 0
     /\ cancelFunc' = 0 => CallCancelFunc(th', cancelFunc') = th'
     /\ ~(pendingToolCalls \subseteq pendingToolCalls')
          => \E p \in Procs :
               \/ IsSendMessage(p) /\ th[p].pc = "drain" /\ th'[p].pc = "open"
               \/ /\ IsSendFunctionResult(p)
                  /\ th[p].pc = "resolve" /\ th'[p].pc = "open"
                  /\ pendingToolCalls' = pendingToolCalls \ {th[p].callID}
    ]_vars

\* Cancel has stopped a SendMessage that had registered its calls: the calls
\* are still pending, the handler is still set, the log has no new entry
C17_Witness ==
  \E p \in Procs :
    /\ IsSendMessage(p) /\ th[p].cancelled /\ th[p].pc = "done"
    /\ cancelFunc = 0 /\ currentHandler # 0
    /\ th[p].marker = "tool_calls"
    /\ pendingToolCalls # {} /\ pendingToolCalls = DOMAIN th[p].acc
    /\ history = <<UserMessage>>

\* C18: FinalizeInteraction clears the handler and cancels the context of
\* every stream being read, leaving the pending set and the log unchanged;
\* a SendFunctionResult that then finds no handler still removes its id
\* from the pending set and appends its tool entry, but sends no request
\* and hands nothing to a sink.
C18_FinalizeFrame ==
  [][/\ (currentHandler # 0 /\ currentHandler' = 0)
          => /\ UNCHANGED <<pendingToolCalls, history>>
             /\ cancelFunc' = 0
             /\ \A p \in Procs : th[p].pc = "recv" => th'[p].cancelled
     /\ \A p \in Procs :
          (IsSendFunctionResult(p) /\ th[p].handler = 0) =>
            /\ (th[p].pc = "resolve" /\ th'[p].pc = "open")
                 => pendingToolCalls' = pendingToolCalls \ {th[p].callID}
            /\ (th[p].pc = "open" /\ th'[p].pc # "open")
                 => /\ history' = Append(history, ExpectedResult(th[p]))
                    /\ th'[p].pc = "done" /\ th'[p].events = <<>>
                    /\ sent' = sent
    ]_vars

\* C19: the log only grows, and a call that returns an error (the stream
\* failed to open, or a receive failed other than by end-of-stream) has
\* appended no assistant entry.
C19_TransportError ==
  [][/\ Len(history') >= Len(history)
     /\ SubSeq(history', 1, Len(history)) = history
     /\ \A p \in Procs : th'[p].ret = "err" => th'[p].commits = <<>>
    ]_vars

\* C20: when a turn has committed an assistant entry with tool calls, the
\* turn has handed the sink exactly one function_call event for each call id
\* of the entry and none for any other id.
C20_EventPerCommittedCall ==
  \A p \in Procs :
    \A k \in 1..Len(th[p].commits) :
      IsCallEntry(th[p].commits[k]) =>
        LET ids == CallIds(th[p].commits[k])
            ev == CallEvents(th[p].events)
        IN /\ \A id \in ids : Cardinality({i \in 1..Len(ev) : ev[i].id = id}) = 1
           /\ \A i \in 1..Len(ev) : ev[i].id \in ids

\* C21: SendMessage returns true exactly when its stream finished requesting
\* tool calls (the marker was tool_calls, an assistant tool-call entry was
\* committed and its function_call events were handed to the sink); a turn
\* that ended with the stop marker returns false, also when tool-call
\* fragments came before the marker.
C21_ReturnValue ==
  \A p \in Procs :
    (IsSendMessage(p) /\ th[p].pc = "done" /\ th[p].ret = "nil") =>
      /\ th[p].flag <=>
           /\ th[p].marker = "tool_calls"
           /\ \E k \in 1..Len(th[p].commits) : IsCallEntry(th[p].commits[k])
           /\ CallEvents(th[p].events) # <<>>
      /\ th[p].marker = "stop" => ~th[p].flag

TextTurn(t) == t.marker = "stop" /\ ~t.sawTool /\ t.frags # <<>>

\* C23 as stated: when a turn of SendMessage finalizes as a text turn, the
\* assistant text entry is committed and the sink is handed a completion
\* signal, an event that is not a message, after the last message event.
C23_CompletionSignal ==
  \A p \in Procs :
    (IsSendMessage(p) /\ th[p].pc = "done" /\ th[p].eof /\ TextTurn(th[p])) =>
      /\ th[p].commits = <<TextEntry(Flatten(th[p].frags, Len(th[p].frags)))>>
      /\ Len(th[p].events) > 0
      /\ th[p].events[Len(th[p].events)].type \notin {"message", "function_call"}

\* C23 amended: when the stream of a SendMessage that carried text only and
\* the stop marker ends, the assistant text entry is appended to the log and
\* the call returns false without error; the sink has been handed one
\* message event per fragment and end-of-stream hands it nothing more.
C23_TextTurnCommitted ==
  [][\A p \in Procs :
       (IsSendMessage(p) /\ th[p].pc = "recv" /\ th'[p].eof /\ TextTurn(th[p])) =>
         /\ history' = Append(history, TextEntry(Flatten(th[p].frags, Len(th[p].frags))))
         /\ th'[p].ret = "nil" /\ ~th'[p].flag
         /\ th'[p].events = th[p].events
         /\ Len(th[p].events) = Len(th[p].frags)
         /\ \A i \in 1..Len(th[p].events) : th[p].events[i].type = "message"
    ]_vars

\* a text turn of two fragments has ended: the log is user, assistant(text)
\* and the last event is the second message event
C23_Witness ==
  \E p \in Procs :
    /\ IsSendMessage(p) /\ th[p].pc = "done" /\ th[p].eof /\ TextTurn(th[p])
    /\ Len(th[p].frags) = 2
    /\ history = <<UserMessage, TextEntry(Flatten(th[p].frags, 2))>>
    /\ Len(th[p].events) = 2 /\ th[p].events[2].type = "message"
    /\ th[p].ret = "nil" /\ ~th[p].flag

AssistantCommits(t) == SelectSeq(t.commits, LAMBDA m : m.role = RoleAssistant)

\* C24: every assistant entry a turn commits has non-empty content or
\* non-empty toolCalls and never both, and a turn, initial or follow-up,
\* commits at most one assistant entry.
C24_ContentXorToolCalls ==
  \A p \in Procs :
    /\ Len(AssistantCommits(th[p])) <= 1
    /\ \A k \in 1..Len(th[p].commits) :
         th[p].commits[k].role = RoleAssistant =>
           (th[p].commits[k].content # E) # (Len(th[p].commits[k].toolCalls) > 0)

NoTurnInFlight == \A p \in Procs : th[p].pc \in {"idle", "done"}

\* C27: whenever no call is running, every pending id is in the toolCalls
\* of some assistant entry of the log, and every synthetic cancelled result
\* in the log has an assistant entry issuing its id earlier in the log; also
\* when the stream failed or was cancelled after the tool_calls marker.
C27_PendingIssuedInLog ==
  NoTurnInFlight =>
    /\ pendingToolCalls \subseteq IssuedInLog(history)
    /\ \A i \in 1..Len(history) :
         (history[i].role = RoleTool /\ history[i] = SyntheticResult(history[i].toolCallId))
           => \E j \in 1..(i - 1) :
                IsCallEntry(history[j]) /\ history[i].toolCallId \in CallIds(history[j])

\* C28: under any interleaving of SendMessage with a SendFunctionResult
\* made in reaction to a function_call event, the tool entry for an id
\* stands in the log after the assistant entry that issues the id.
C28_ToolEntryAfterCallEntry ==
  \A i, j \in 1..Len(history) :
    (/\ history[i].role = RoleTool
     /\ IsCallEntry(history[j])
     /\ history[i].toolCallId \in CallIds(history[j]))
      => j < i

\* C29: for every tool call a turn finalizes, the arguments of its
\* function_call event are the arguments stored for that id in the
\* committed assistant entry, also when the stream carried no argument text.
C29_SameArguments ==
  \A p \in Procs :
    \A k \in 1..Len(th[p].commits) :
      \A c \in 1..Len(th[p].commits[k].toolCalls) :
        \A i \in 1..Len(th[p].events) :
          (/\ th[p].events[i].type = "function_call"
           /\ th[p].events[i].id = th[p].commits[k].toolCalls[c].id)
            => th[p].events[i].args = th[p].commits[k].toolCalls[c].args

\* C30: once FinalizeInteraction has cleared the handler, and until a
\* SendMessage stores a handler again, no call hands an event to a sink:
\* neither a SendMessage that was running nor a follow-up that had started.
C30_NoEventAfterFinalize ==
  [][\A p \in Procs :
       (currentHandler = 0 /\ th[p].pc = "recv" /\ th'[p].pc \in {"recv", "done"})
         => th'[p].events = th[p].events
    ]_vars

\* the ids still expected when entry i of msgs is reached: issued by an
\* earlier assistant entry with no tool entry for the id in between
ExpectedBefore(msgs, i) ==
  {id \in UNION {CallIds(msgs[j]) : j \in 1..(i - 1)} :
     \E j \in 1..(i - 1) :
       /\ IsCallEntry(msgs[j]) /\ id \in CallIds(msgs[j])
       /\ ~ \E k \in (j + 1)..(i - 1) : IsResultOf(msgs[k], id)}

Outbound(m) ==
  [role |-> m.role,
   content |-> IF IsCallEntry(m) THEN <<>> ELSE m.content,
   toolCalls |-> m.toolCalls,
   toolCallId |-> IF m.role = "tool" THEN m.toolCallId ELSE ""]

\* msgs in order, without the assistant text entries that stand where some
\* result is still expected
Projected(msgs) ==
  LET idx == SelectSeq([i \in 1..Len(msgs) |-> i],
                       LAMBDA i : ~(IsTextEntry(msgs[i]) /\ ExpectedBefore(msgs, i) # {}))
  IN [k \in 1..Len(idx) |-> Outbound(msgs[idx[k]])]

\* C26: the request SendFunctionResult builds is the log in order with
\* only the assistant text entries removed that stand where a result is
\* still expected; every other entry is included once, a tool-call entry
\* with empty content, and a tool entry whose id was not expected is
\* included and changes no expectation.
C26_ProjectorOutput ==
  [][\A p \in Procs :
       (/\ IsSendFunctionResult(p) /\ th[p].handler # 0
        /\ th[p].pc = "open" /\ th'[p].pc # "open")
         => /\ sent'.by = "SendFunctionResult"
            /\ sent'.msgs = Projected(history')
    ]_vars

\* a request was built from a log with a text entry standing before the
\* result of a call: the entry is left out
C26_Witness ==
  \E p \in Procs :
    /\ IsSendFunctionResult(p) /\ th[p].pc = "recv"
    /\ sent.by = "SendFunctionResult" /\ sent.msgs = Projected(history)
    /\ Len(sent.msgs) < Len(history)

\* the argument text of the fragments of tcs that carry the id, in order
RECURSIVE ArgsOf(_, _)
ArgsOf(tcs, id) ==
  IF tcs = <<>> THEN <<>>
  ELSE (IF Head(tcs).id = id THEN Head(tcs).args ELSE <<>>) \o ArgsOf(Tail(tcs), id)

\* C25: a turn, initial or follow-up, that finalizes with the tool_calls
\* marker hands the sink one function_call event per distinct non-empty call
\* id seen, whose arguments are the concatenation, in arrival order, of the
\* argument fragments that carried that id; a fragment with an empty id
\* creates no call and changes no call's arguments.
C25_DemultiplexById ==
  \A p \in Procs :
    th[p].marker = "tool_calls" =>
      LET ev == CallEvents(th[p].events) IN
      /\ Len(ev) = Cardinality(th[p].seen)
      /\ {ev[i].id : i \in 1..Len(ev)} = th[p].seen
      /\ \A i \in 1..Len(ev) : ev[i].args = ArgsOf(th[p].calls, ev[i].id)

HoldsLock(p) == mu = p \/ pendingMu = p

\* the goroutine waits for a lock another goroutine holds
Waits(p) ==
  \/ lk[p].pc = "mu.Lock" /\ mu # 0
  \/ lk[p].pc \in {"pendingMu.Lock", "track.Lock"} /\ pendingMu # 0

\* C22: no goroutine holds a.mu and a.pendingMu together or asks for one
\* while holding the other; none holds a lock while it creates a stream,
\* waits in stream.Recv() or is inside the handler; a lock that is held is
\* held by a goroutine at the statement before its Unlock, which is not
\* waiting for anything (no deadlock, and a waiter waits for one critical
\* section); and Cancel and FinalizeInteraction never hold a.pendingMu, for
\* which SendFunctionResult waits to report its result.
C22_LockIndependence ==
  /\ \A p \in LockProcs :
       /\ ~(mu = p /\ pendingMu = p)
       /\ lk[p].pc \in {"mu.Lock", "pendingMu.Lock", "track.Lock"} => ~HoldsLock(p)
       /\ lk[p].pc \in {"idle", "open", "recv", "handler"} => ~HoldsLock(p)
       /\ HoldsLock(p) => ~Waits(p)
  /\ mu # 0 => lk[mu].pc = "mu.held"
  /\ pendingMu # 0 =>
       /\ lk[pendingMu].pc \in {"pendingMu.held", "track.held"}
       /\ lk[pendingMu].op \in {"SendMessage", "SendFunctionResult"}

\* Cancel holds a.mu, a SendFunctionResult waits for it, and a SendMessage
\* holds a.pendingMu to track a call in its loop
C22_Witness ==
  \E p, q, r \in LockProcs :
    /\ At(p, "Cancel", "mu.held") /\ mu = p
    /\ At(q, "SendFunctionResult", "mu.Lock")
    /\ At(r, "SendMessage", "track.held") /\ pendingMu = r

====
